---- MODULE Spec2Model ----
(***************************************************************************)
(* GCL::sqlWriter (source/SQLWriter.cpp): the fluent SQL statement         *)
(* composer.  The writer object is the record w; every mutator of the      *)
(* class is an operator from writer records to writer records, every       *)
(* clause renderer an operator from a writer record to a render result,    *)
(* and every public call is one action of the state machine.               *)
(***************************************************************************)
EXTENDS Integers, Sequences, FiniteSets, TLC

VARIABLES
  w,            \* the sqlWriter object: query type and all clause members
  dialect,      \* sqlWriter::dialect, fixed when the writer is configured
  databaseMap,  \* sqlWriter::databaseMap: table name -> STableData
  result,       \* what the last call returned when it was string()
  lastCall,     \* name of the last public call
  prevType,     \* w.queryType before the last public call
  reader        \* readMapFile: where the load stands, its locals, its outcome

vars == <<w, dialect, databaseMap, result, lastCall, prevType, reader>>

----------------------------------------------------------------------------
(* Enumerations of the class *)

qt_none == "qt_none"
qt_select == "qt_select"
qt_insert == "qt_insert"
qt_update == "qt_update"
qt_delete == "qt_delete"
qt_upsert == "qt_upsert"

QueryTypes == {qt_none, qt_select, qt_insert, qt_update, qt_delete, qt_upsert}

MYSQL == "MYSQL"
POSTGRE == "POSTGRE"
MICROSOFT == "MICROSOFT"

Dialects == {MYSQL, POSTGRE, MICROSOFT}

ASC == "ASC"
DESC == "DESC"

JOIN_LEFT == "JOIN_LEFT"
JOIN_RIGHT == "JOIN_RIGHT"
JOIN_INNER == "JOIN_INNER"
JOIN_FULL == "JOIN_FULL"

----------------------------------------------------------------------------
(* Values: parameter (a typed value), std::optional, std::pair *)

IntParam(n) == [type |-> "int", i |-> n, s |-> ""]
StringParam(str) == [type |-> "string", i |-> 0, s |-> str]
BindParam(name) == [type |-> "bindValue", i |-> 0, s |-> name]

\* parameter::to_string(): the decimal digits of a number, the characters
\* of a string or of a bind value's name
to_string(p) == IF p.type = "int" THEN ToString(p.i) ELSE p.s

NoNumber == [has |-> FALSE, v |-> 0]
SomeNumber(n) == [has |-> TRUE, v |-> n]
NoString == [has |-> FALSE, v |-> ""]
SomeString(str) == [has |-> TRUE, v |-> str]

Pair(a, b) == [first |-> a, second |-> b]

----------------------------------------------------------------------------
(* The writer as constructed: every container empty, every optional unset *)

EmptyWriter ==
  [queryType |-> qt_none,
   selectFields |-> <<>>, fromFields |-> <<>>, joinFields |-> <<>>,
   whereFields |-> <<>>, orderByFields |-> <<>>, setFields |-> <<>>,
   valueFields |-> <<>>,
   insertTable |-> "", updateTable |-> "", deleteTable |-> "",
   limitValue |-> NoNumber, offsetValue |-> NoNumber, countValue |-> NoString,
   distinct_ |-> FALSE, maxFields |-> <<>>, minFields |-> <<>>]

----------------------------------------------------------------------------
(* Mutators *)

count(q, countExpression) ==
  [q EXCEPT !.countValue = SomeString(countExpression)]

distinct(q) == [q EXCEPT !.distinct_ = TRUE]

\* a from that replaces the sources held: told apart from from by
\* C16_FromAccumulates
from_replace(q, fromString, alias) ==
  [q EXCEPT !.fromFields = <<Pair(fromString, alias)>>]

from(q, fromString, alias) ==
  [q EXCEPT !.fromFields = Append(@, Pair(fromString, alias))]

from_list(q, fields) ==
  [q EXCEPT !.fromFields = @ \o [k \in 1..Len(fields) |-> Pair(fields[k], "")]]

max(q, column, as) == [q EXCEPT !.maxFields = Append(@, Pair(column, as))]

min(q, column, as) == [q EXCEPT !.minFields = Append(@, Pair(column, as))]

join(q, fields) == [q EXCEPT !.joinFields = @ \o fields]

limit(q, n) == [q EXCEPT !.limitValue = SomeNumber(n)]

offset(q, n) == [q EXCEPT !.offsetValue = SomeNumber(n)]

orderBy(q, fields) == [q EXCEPT !.orderByFields = @ \o fields]

resetQuery(q) ==
  [q EXCEPT !.selectFields = <<>>, !.fromFields = <<>>, !.whereFields = <<>>,
            !.insertTable = "", !.valueFields = <<>>, !.orderByFields = <<>>,
            !.joinFields = <<>>, !.limitValue = NoNumber,
            !.offsetValue = NoNumber, !.countValue = NoString,
            !.distinct_ = FALSE, !.maxFields = <<>>, !.minFields = <<>>,
            !.updateTable = "", !.setFields = <<>>, !.queryType = qt_none]

\* a resetWhere that clears like resetQuery: told apart from resetWhere by
\* C5_ResetWhereOnlyPartialReset
resetWhere_all(q) == resetQuery(q)

resetWhere(q) == [q EXCEPT !.whereFields = <<>>]

\* an entry method that never resets: told apart from restart by
\* C2_SelectResetsStartedQuery
restart_never(q) == q

\* the start of every entry method: a query already started is reset
restart(q) == IF q.queryType # qt_none THEN resetQuery(q) ELSE q

deleteFrom(q, tableName) ==
  [restart(q) EXCEPT !.queryType = qt_delete, !.deleteTable = tableName]

insertInto(q, tableName) ==
  [restart(q) EXCEPT !.queryType = qt_insert, !.insertTable = tableName]

insertInto_fields(q, tableName, fields) ==
  [restart(q) EXCEPT !.queryType = qt_insert, !.insertTable = tableName,
                     !.selectFields = @ \o fields]

select(q) == [restart(q) EXCEPT !.queryType = qt_select]

select_fields(q, fields) ==
  [select(q) EXCEPT !.selectFields = @ \o fields]

select_table(q, tableName, fields) ==
  [select(q) EXCEPT !.selectFields =
     @ \o [k \in 1..Len(fields) |-> tableName \o "." \o fields[k]]]

set(q, columnName, value) ==
  [q EXCEPT !.setFields = Append(@, Pair(columnName, value))]

set_list(q, fields) == [q EXCEPT !.setFields = @ \o fields]

update(q, tableName) ==
  [restart(q) EXCEPT !.queryType = qt_update, !.updateTable = tableName]

upsert(q, tableName) ==
  [restart(q) EXCEPT !.queryType = qt_upsert, !.insertTable = tableName]

values(q, fields) == [q EXCEPT !.valueFields = @ \o fields]

\* a where() that starts a Select when no query is started: told apart from
\* where by C30_KindFrame
where_entering(q, fields) ==
  [q EXCEPT !.whereFields = @ \o fields,
            !.queryType = IF @ = qt_none THEN qt_select ELSE @]

where(q, fields) == [q EXCEPT !.whereFields = @ \o fields]

\* a const member no other member calls
verifyOperator(oper) ==
  \/ oper = "=" \/ oper = "<>" \/ oper = "!=" \/ oper = ">" \/ oper = "<"
  \/ oper = ">=" \/ oper = "<=" \/ oper = "BETWEEN" \/ oper = "LIKE"
  \/ oper = "IN"

----------------------------------------------------------------------------
(* Render results: a statement, or the failure that was raised *)

Ok(str) == [ok |-> TRUE, str |-> str, err |-> ""]
Fail(e) == [ok |-> FALSE, str |-> "", err |-> e]
NoResult == [ok |-> FALSE, str |-> "", err |-> "(no string() call)"]

E_SQLWRITER_NOSELECTFIELDS == "E_SQLWRITER_NOSELECTFIELDS"
E_SQLWRITER_NOFROMFIELD == "E_SQLWRITER_NOFROMFIELD"
E_SQLWRITER_UNKNOWNDIALECT == "E_SQLWRITER_UNKNOWNDIALECT"
ASSERT_SETFIELDS == "RUNTIME_ASSERT: No Set fields defined for update query."
ASSERT_UPSERT_MYSQL == "RUNTIME_ASSERT: Upsert only implemented for MYSQL."
CODE_ERROR == "CODE_ERROR"

\* std::numeric_limits<std::uint64_t>::max() through std::to_string
UINT64_MAX_STRING == "18446744073709551615"

\* the "if (first) first = false; else returnValue += sep" idiom
Separator(first, sep) == IF first THEN "" ELSE sep

----------------------------------------------------------------------------
(* Name mapping and literal rendering *)

\* a name lookup that answers with the physical name the schema map holds:
\* told apart from getColumnMap by C21_RenderIndependentOfMap
getColumnMap_mapped(columnName) ==
  IF columnName \in DOMAIN databaseMap
  THEN IF databaseMap[columnName].tableName.second # ""
       THEN databaseMap[columnName].tableName.second ELSE columnName
  ELSE columnName

getColumnMap(columnName) == columnName

getTableMap(search) == search

\* string: quoted; bind value: name, ':' added unless it starts with ':'
\* or '?' (the names used are listed with their first character); else
\* the value's to_string()
front(name) ==
  CASE name \in {":id", ":v"} -> ":"
    [] name \in {"?id", "?"} -> "?"
    [] OTHER -> "other"

renderValueWithBind(p) ==
  IF p.type = "string" THEN "'" \o to_string(p) \o "'"
  ELSE IF p.type = "bindValue"
       THEN IF front(to_string(p)) = ":" THEN to_string(p)
            ELSE IF front(to_string(p)) = "?" THEN to_string(p)
            ELSE ":" \o to_string(p)
       ELSE to_string(p)

\* string: quoted; everything else, a bind value included: to_string()
renderValue(p) ==
  IF p.type = "string" THEN "'" \o to_string(p) \o "'" ELSE to_string(p)

----------------------------------------------------------------------------
(* Clause renderers *)

RECURSIVE createWhereClause_loop(_, _, _)
createWhereClause_loop(fields, k, returnValue) ==
  IF k > Len(fields) THEN returnValue
  ELSE createWhereClause_loop(fields, k + 1,
         returnValue \o Separator(k = 1, " AND ")
           \o "(" \o getColumnMap(fields[k][1]) \o " " \o fields[k][2]
           \o (IF fields[k][3].type = "string"
               THEN " '" \o to_string(fields[k][3]) \o "')"
               ELSE " " \o to_string(fields[k][3]) \o ")"))

\* a where clause with the predicates last to first: told apart from
\* createWhereClause by C15_WhereClauseRendering
createWhereClause_reversed(q) ==
  createWhereClause_loop(
    [k \in 1..Len(q.whereFields) |->
       q.whereFields[Len(q.whereFields) + 1 - k]], 1, " WHERE ")

createWhereClause(q) == createWhereClause_loop(q.whereFields, 1, " WHERE ")

\* a createDeleteQuery that leaves the WHERE clause out when no predicate
\* is held, as createSelectQuery does: told apart from createDeleteQuery by
\* C32_WhereKeywordPerKind
createDeleteQuery_guarded(q) ==
  Ok("DELETE FROM " \o getColumnMap(q.deleteTable)
       \o (IF q.whereFields # <<>> THEN createWhereClause(q) ELSE ""))

createDeleteQuery(q) ==
  Ok("DELETE FROM " \o getColumnMap(q.deleteTable) \o createWhereClause(q))

RECURSIVE createInsertQuery_columns(_, _, _)
createInsertQuery_columns(fields, k, returnValue) ==
  IF k > Len(fields) THEN returnValue
  ELSE createInsertQuery_columns(fields, k + 1,
         returnValue \o Separator(k = 1, ", ") \o fields[k])

RECURSIVE createInsertQuery_row(_, _, _)
createInsertQuery_row(row, k, returnValue) ==
  IF k > Len(row) THEN returnValue
  ELSE createInsertQuery_row(row, k + 1,
         returnValue \o Separator(k = 1, ", ") \o renderValueWithBind(row[k]))

RECURSIVE createInsertQuery_rows(_, _, _)
createInsertQuery_rows(rows, k, returnValue) ==
  IF k > Len(rows) THEN returnValue
  ELSE createInsertQuery_rows(rows, k + 1,
         createInsertQuery_row(rows[k], 1,
           returnValue \o Separator(k = 1, ", ") \o "(") \o ")")

\* an insert renderer that checks each row against the column list: told
\* apart from createInsertQuery by C18_InsertRendering
createInsertQuery_arity(q) ==
  IF \E k \in 1..Len(q.valueFields) :
       Len(q.valueFields[k]) # Len(q.selectFields)
  THEN Fail(CODE_ERROR)
  ELSE Ok(createInsertQuery_rows(q.valueFields, 1,
            createInsertQuery_columns(q.selectFields, 1,
              "INSERT INTO " \o q.insertTable \o "(") \o ") VALUES "))

createInsertQuery(q) ==
  Ok(createInsertQuery_rows(q.valueFields, 1,
       createInsertQuery_columns(q.selectFields, 1,
         "INSERT INTO " \o q.insertTable \o "(") \o ") VALUES "))

\* a limit clause with the two MySQL numbers exchanged: told apart from
\* createLimitClause by C12_MySQLLimitClause
createLimitClause_limitFirst(q, d) ==
  IF d = MYSQL
  THEN IF q.offsetValue.has
       THEN Ok("LIMIT " \o (IF q.limitValue.has THEN ToString(q.limitValue.v)
                            ELSE UINT64_MAX_STRING)
               \o ", " \o ToString(q.offsetValue.v) \o " ")
       ELSE IF q.limitValue.has
            THEN Ok("LIMIT " \o ToString(q.limitValue.v) \o " ")
            ELSE Ok("")
  ELSE IF d = POSTGRE THEN Ok("")
  ELSE Fail(E_SQLWRITER_UNKNOWNDIALECT)

createLimitClause(q, d) ==
  IF d = MYSQL
  THEN IF q.offsetValue.has
       THEN Ok("LIMIT " \o ToString(q.offsetValue.v) \o ", "
               \o (IF q.limitValue.has THEN ToString(q.limitValue.v)
                   ELSE UINT64_MAX_STRING) \o " ")
       ELSE IF q.limitValue.has
            THEN Ok("LIMIT " \o ToString(q.limitValue.v) \o " ")
            ELSE Ok("")
  ELSE IF d = POSTGRE THEN Ok("")
  ELSE Fail(E_SQLWRITER_UNKNOWNDIALECT)

RECURSIVE createSetClause_loop(_, _, _)
createSetClause_loop(fields, k, returnValue) ==
  IF k > Len(fields) THEN returnValue
  ELSE createSetClause_loop(fields, k + 1,
         returnValue \o Separator(k = 1, ", ") \o fields[k].first \o " = "
           \o renderValueWithBind(fields[k].second))

\* a SET clause without the non-empty assertion: told apart from
\* createSetClause by C9_UpdateRequiresSetInCallOrder
createSetClause_noAssert(q) ==
  Ok(createSetClause_loop(q.setFields, 1, "SET "))

createSetClause(q) ==
  IF q.setFields = <<>> THEN Fail(ASSERT_SETFIELDS)
  ELSE Ok(createSetClause_loop(q.setFields, 1, "SET "))

createUpdateQuery(q) ==
  LET setClause == createSetClause(q)
  IN IF ~setClause.ok THEN setClause
     ELSE Ok("UPDATE " \o q.updateTable \o " " \o setClause.str
             \o createWhereClause(q))

RECURSIVE createUpsertQuery_names(_, _, _, _)
createUpsertQuery_names(names, k, first, fieldNames) ==
  IF k > Len(names) THEN fieldNames
  ELSE createUpsertQuery_names(names, k + 1, FALSE,
         fieldNames \o Separator(first, ", ") \o getColumnMap(names[k]))

RECURSIVE createUpsertQuery_values(_, _, _, _)
createUpsertQuery_values(params, k, first, fieldValues) ==
  IF k > Len(params) THEN fieldValues
  ELSE createUpsertQuery_values(params, k + 1, FALSE,
         fieldValues \o Separator(first, ", ") \o renderValue(params[k]))

RECURSIVE createUpsertQuery_update(_, _, _)
createUpsertQuery_update(fields, k, fieldValues) ==
  IF k > Len(fields) THEN fieldValues
  ELSE createUpsertQuery_update(fields, k + 1,
         fieldValues \o Separator(k = 1, ", ")
           \o getColumnMap(fields[k].first) \o " = "
           \o renderValue(fields[k].second))

\* an upsert with the SET fields ahead of the where fields: told apart from
\* createUpsertQuery_render by C19_UpsertRendering
createUpsertQuery_setFirst(q) ==
  LET whereNames == [k \in 1..Len(q.whereFields) |-> q.whereFields[k][1]]
      whereValues == [k \in 1..Len(q.whereFields) |-> q.whereFields[k][3]]
      setNames == [k \in 1..Len(q.setFields) |-> q.setFields[k].first]
      setValues == [k \in 1..Len(q.setFields) |-> q.setFields[k].second]
      firstValue == q.setFields = <<>>
      fieldNames ==
        createUpsertQuery_names(whereNames, 1, firstValue,
          createUpsertQuery_names(setNames, 1, TRUE, ""))
      fieldValues ==
        createUpsertQuery_values(whereValues, 1, firstValue,
          createUpsertQuery_values(setValues, 1, TRUE, ""))
  IN Ok("INSERT INTO " \o q.insertTable \o "(" \o fieldNames
        \o ") VALUES (" \o fieldValues \o ") "
        \o "ON DUPLICATE KEY UPDATE "
        \o createUpsertQuery_update(q.setFields, 1, ""))

\* the MYSQL case of the switch
createUpsertQuery_render(q) ==
  LET whereNames == [k \in 1..Len(q.whereFields) |-> q.whereFields[k][1]]
      whereValues == [k \in 1..Len(q.whereFields) |-> q.whereFields[k][3]]
      setNames == [k \in 1..Len(q.setFields) |-> q.setFields[k].first]
      setValues == [k \in 1..Len(q.setFields) |-> q.setFields[k].second]
      firstValue == q.whereFields = <<>>
      fieldNames ==
        createUpsertQuery_names(setNames, 1, firstValue,
          createUpsertQuery_names(whereNames, 1, TRUE, ""))
      fieldValues ==
        createUpsertQuery_values(setValues, 1, firstValue,
          createUpsertQuery_values(whereValues, 1, TRUE, ""))
  IN Ok("INSERT INTO " \o q.insertTable \o "(" \o fieldNames
        \o ") VALUES (" \o fieldValues \o ") "
        \o "ON DUPLICATE KEY UPDATE "
        \o createUpsertQuery_update(q.setFields, 1, ""))

\* an upsert renderer that also accepts POSTGRE: told apart from
\* createUpsertQuery by C10_UpsertOnlyMySQL
createUpsertQuery_postgre(q, d) ==
  IF d = MICROSOFT THEN Fail(ASSERT_UPSERT_MYSQL)
  ELSE createUpsertQuery_render(q)

createUpsertQuery(q, d) ==
  IF d # MYSQL THEN Fail(ASSERT_UPSERT_MYSQL)
  ELSE createUpsertQuery_render(q)

\* the local tableAlias is never assigned: it is empty where it is appended
RECURSIVE createFromClause_loop(_, _, _)
createFromClause_loop(fields, k, returnValue) ==
  IF k > Len(fields) THEN returnValue
  ELSE LET tableAlias == ""
       IN createFromClause_loop(fields, k + 1,
            returnValue \o Separator(k = 1, ", ") \o fields[k].first
              \o (IF fields[k].second # "" THEN " AS " \o tableAlias ELSE ""))

createFromClause(q) == createFromClause_loop(q.fromFields, 1, " FROM ")

JoinKeyword(joinKind) ==
  CASE joinKind = JOIN_LEFT -> Ok(" LEFT JOIN ")
    [] joinKind = JOIN_RIGHT -> Ok(" RIGHT JOIN ")
    [] joinKind = JOIN_INNER -> Ok(" INNER JOIN ")
    [] joinKind = JOIN_FULL -> Ok("FULL JOIN ")
    [] OTHER -> Fail(CODE_ERROR)

RECURSIVE createJoinClause_loop(_, _, _)
createJoinClause_loop(fields, k, returnValue) ==
  IF k > Len(fields) THEN Ok(returnValue)
  ELSE LET e == fields[k]
           keyword == JoinKeyword(e[3])
       IN IF ~keyword.ok THEN keyword
          ELSE createJoinClause_loop(fields, k + 1,
                 returnValue \o keyword.str \o e[4] \o " ON "
                   \o e[1] \o "." \o e[2] \o "=" \o e[4] \o "." \o e[5])

createJoinClause(q) == createJoinClause_loop(q.joinFields, 1, "")

RECURSIVE createOrderByClause_loop(_, _, _)
createOrderByClause_loop(fields, k, returnValue) ==
  IF k > Len(fields) THEN returnValue
  ELSE createOrderByClause_loop(fields, k + 1,
         returnValue \o Separator(k = 1, ", ")
           \o getColumnMap(fields[k].first) \o " "
           \o (IF fields[k].second = ASC THEN "ASC "
               ELSE IF fields[k].second = DESC THEN "DESC " ELSE ""))

createOrderByClause(q) ==
  createOrderByClause_loop(q.orderByFields, 1, " ORDER BY ")

RECURSIVE createSelectClause_fields(_, _, _)
createSelectClause_fields(fields, k, returnValue) ==
  IF k > Len(fields) THEN returnValue
  ELSE createSelectClause_fields(fields, k + 1,
         returnValue \o Separator(k = 1, ", ") \o fields[k])

RECURSIVE createSelectClause_aggregate(_, _, _, _, _)
createSelectClause_aggregate(keyword, fields, k, first, returnValue) ==
  IF k > Len(fields) THEN returnValue
  ELSE createSelectClause_aggregate(keyword, fields, k + 1, FALSE,
         returnValue \o Separator(first, ", ")
           \o keyword \o "(" \o fields[k].first \o ")"
           \o (IF fields[k].second # "" THEN " AS " \o fields[k].second
               ELSE ""))

\* a select clause with the MIN entries ahead of the MAX entries: told apart
\* from createSelectClause by C14_ProjectionOrder
createSelectClause_minFirst(q, d) ==
  LET top == IF d = MICROSOFT /\ q.limitValue.has
             THEN "TOP " \o ToString(q.limitValue.v) \o " " ELSE ""
      head == "SELECT " \o top \o (IF q.distinct_ THEN "DISTINCT " ELSE "")
      afterFields == createSelectClause_fields(q.selectFields, 1, head)
      first1 == q.selectFields = <<>>
      afterCount ==
        IF q.countValue.has
        THEN afterFields \o Separator(first1, ", ")
               \o (IF q.countValue.v = "*" THEN "COUNT(*) "
                   ELSE "COUNT(" \o q.countValue.v \o ") ")
        ELSE afterFields
      first2 == first1 /\ ~q.countValue.has
      afterMin ==
        createSelectClause_aggregate("MIN", q.minFields, 1, first2, afterCount)
      first3 == first2 /\ q.minFields = <<>>
  IN createSelectClause_aggregate("MAX", q.maxFields, 1, first3, afterMin)

createSelectClause(q, d) ==
  LET top == IF d = MICROSOFT /\ q.limitValue.has
             THEN "TOP " \o ToString(q.limitValue.v) \o " " ELSE ""
      head == "SELECT " \o top \o (IF q.distinct_ THEN "DISTINCT " ELSE "")
      afterFields == createSelectClause_fields(q.selectFields, 1, head)
      first1 == q.selectFields = <<>>
      afterCount ==
        IF q.countValue.has
        THEN afterFields \o Separator(first1, ", ")
               \o (IF q.countValue.v = "*" THEN "COUNT(*) "
                   ELSE "COUNT(" \o q.countValue.v \o ") ")
        ELSE afterFields
      first2 == first1 /\ ~q.countValue.has
      afterMax ==
        createSelectClause_aggregate("MAX", q.maxFields, 1, first2, afterCount)
      first3 == first2 /\ q.maxFields = <<>>
  IN createSelectClause_aggregate("MIN", q.minFields, 1, first3, afterMax)

\* the clauses of a Select that has a projection and a FROM source
createSelectQuery_clauses(q, d) ==
    LET joinClause ==
          IF q.joinFields # <<>> THEN createJoinClause(q) ELSE Ok("")
        limitClause == createLimitClause(q, d)
    IN IF ~joinClause.ok THEN joinClause
       ELSE IF ~limitClause.ok THEN limitClause
       ELSE Ok(createSelectClause(q, d) \o createFromClause(q)
               \o joinClause.str
               \o (IF q.whereFields # <<>> THEN createWhereClause(q) ELSE "")
               \o (IF q.orderByFields # <<>> THEN createOrderByClause(q)
                   ELSE "")
               \o limitClause.str)

\* a Select renderer that looks for the FROM source first: told apart from
\* createSelectQuery by C8_SelectRequiresProjectionAndFrom
createSelectQuery_fromFirst(q, d) ==
  IF q.fromFields = <<>> THEN Fail(E_SQLWRITER_NOFROMFIELD)
  ELSE IF ~(q.selectFields # <<>> \/ q.countValue.has
            \/ q.maxFields # <<>> \/ q.minFields # <<>>)
  THEN Fail(E_SQLWRITER_NOSELECTFIELDS)
  ELSE createSelectQuery_clauses(q, d)

createSelectQuery(q, d) ==
  IF ~(q.selectFields # <<>> \/ q.countValue.has
       \/ q.maxFields # <<>> \/ q.minFields # <<>>)
  THEN Fail(E_SQLWRITER_NOSELECTFIELDS)
  ELSE IF q.fromFields = <<>> THEN Fail(E_SQLWRITER_NOFROMFIELD)
  ELSE createSelectQuery_clauses(q, d)

\* a string() that renders a Select when no query is started: told apart
\* from string by C31_NoStatementWithoutKind
string_defaultSelect(q, d) ==
  CASE q.queryType = qt_insert -> createInsertQuery(q)
    [] q.queryType = qt_update -> createUpdateQuery(q)
    [] q.queryType = qt_delete -> createDeleteQuery(q)
    [] q.queryType = qt_upsert -> createUpsertQuery(q, d)
    [] OTHER -> createSelectQuery(q, d)

string(q, d) ==
  CASE q.queryType = qt_select -> createSelectQuery(q, d)
    [] q.queryType = qt_insert -> createInsertQuery(q)
    [] q.queryType = qt_update -> createUpdateQuery(q)
    [] q.queryType = qt_delete -> createDeleteQuery(q)
    [] q.queryType = qt_upsert -> createUpsertQuery(q, d)
    [] OTHER -> Fail(CODE_ERROR)

----------------------------------------------------------------------------
(* The schema map: table name -> [tableName, columnData], both name pairs *)

EmptyMap == [t \in {} |-> 0]

\* a createColumn that registers the column afresh whether or not it is
\* there: told apart from createColumn by C23_CreateColumnOnlyNew
createColumn_overwrite(m, tableName, columnName) ==
  IF tableName \notin DOMAIN m THEN m
  ELSE [m EXCEPT ![tableName].columnData =
          [c \in DOMAIN @ \cup {columnName} |->
             IF c = columnName THEN [columnName |-> Pair(columnName, "")]
             ELSE @[c]]]

createColumn(m, tableName, columnName) ==
  IF tableName \notin DOMAIN m THEN m
  ELSE IF columnName \in DOMAIN m[tableName].columnData THEN m
  ELSE [m EXCEPT ![tableName].columnData =
          [c \in DOMAIN @ \cup {columnName} |->
             IF c = columnName THEN [columnName |-> Pair(columnName, "")]
             ELSE @[c]]]

createColumn_returns(m, tableName, columnName) ==
  /\ tableName \in DOMAIN m
  /\ columnName \notin DOMAIN m[tableName].columnData

\* a createTable that registers the name afresh whether or not it is there:
\* told apart from createTable by C22_CreateTableOnlyNew
createTable_overwrite(m, tableName) ==
  [t \in DOMAIN m \cup {tableName} |->
     IF t = tableName
     THEN [tableName |-> Pair(tableName, ""), columnData |-> EmptyMap]
     ELSE m[t]]

createTable(m, tableName) ==
  IF tableName \in DOMAIN m THEN m
  ELSE [t \in DOMAIN m \cup {tableName} |->
          IF t = tableName
          THEN [tableName |-> Pair(tableName, ""), columnData |-> EmptyMap]
          ELSE m[t]]

createTable_returns(m, tableName) == tableName \notin DOMAIN m

\* a setColumnMap that stores the physical name as the column's own name:
\* told apart from setColumnMap by C28_LoadAppliesStatedMappings
setColumnMap_swapped(m, tableName, columnName, columnMap) ==
  IF tableName \in DOMAIN m
  THEN IF columnName \in DOMAIN m[tableName].columnData
       THEN [m EXCEPT ![tableName].columnData[columnName].columnName =
               Pair(columnMap, columnName)]
       ELSE m
  ELSE m

setColumnMap(m, tableName, columnName, columnMap) ==
  IF tableName \in DOMAIN m
  THEN IF columnName \in DOMAIN m[tableName].columnData
       THEN [m EXCEPT ![tableName].columnData[columnName].columnName =
               Pair(columnName, columnMap)]
       ELSE m
  ELSE m

\* a setTableMap that declares the table when it is not there: told apart
\* from setTableMap by C24_MappingNeedsDeclaration
setTableMap_declaring(m, tableName, tableMap) ==
  [t \in DOMAIN m \cup {tableName} |->
     IF t = tableName
     THEN [tableName |-> Pair(tableName, tableMap),
           columnData |-> IF t \in DOMAIN m THEN m[t].columnData ELSE EmptyMap]
     ELSE m[t]]

setTableMap(m, tableName, tableMap) ==
  IF tableName \in DOMAIN m
  THEN [m EXCEPT ![tableName].tableName = Pair(tableName, tableMap)]
  ELSE m

----------------------------------------------------------------------------
(* readMapFile: a line is its characters, positions count from 0 *)

\* std::string::npos
npos == 2147483647

\* textLine.find_first_of(ch, pos)
find_first_of(textLine, ch, pos) ==
  LET found == {i \in 0..(Len(textLine) - 1) : i >= pos /\ textLine[i + 1] = ch}
  IN IF found = {} THEN npos
     ELSE CHOOSE i \in found : \A j \in found : i <= j

\* textLine.substr(pos, n), pos not beyond the end
substr(textLine, pos, n) ==
  LET last == IF n >= Len(textLine) - pos THEN Len(textLine) ELSE pos + n
  IN SubSeq(textLine, pos + 1, last)

\* boost::trim
RECURSIVE trim(_)
trim(text) ==
  IF text = <<>> THEN text
  ELSE IF text[1] = " " THEN trim(Tail(text))
  ELSE IF text[Len(text)] = " " THEN trim(SubSeq(text, 1, Len(text) - 1))
  ELSE text

\* the std::string the characters make
RECURSIVE Str(_)
Str(text) == IF text = <<>> THEN "" ELSE text[1] \o Str(Tail(text))

TABLE == <<"T", "A", "B", "L", "E">>
COLUMN == <<"C", "O", "L", "U", "M", "N">>
END == <<"E", "N", "D">>

\* the outcome of the load: no failure, a failure whose message carries the
\* line number, or a coded failure whose line number went to std::clog
NoError == [error |-> "", line |-> 0, logged |-> FALSE]
MessageError(e, lineNumber) == [error |-> e, line |-> lineNumber, logged |-> FALSE]
CodedError(e, lineNumber) == [error |-> e, line |-> lineNumber, logged |-> TRUE]

E_COULDNOTOPEN == "Could not open SQL map file"
E_NEEDSTOKEN == "Needs at least one token."
E_INVALIDCOLUMNNAME == "Invalid column name."
E_SQLWRITER_SYNTAXERROR == "E_SQLWRITER_SYNTAXERROR"
E_SQLWRITER_INVALIDTABLENAME == "E_SQLWRITER_INVALIDTABLENAME"
E_SQLWRITER_INVALIDCOMMAND == "E_SQLWRITER_INVALIDCOMMAND"

\* what a pass of the loop body leaves: the failure raised, or the map
\* and the open table
Raise(m, currentTable, f) ==
  [databaseMap |-> m, currentTable |-> currentTable, failure |-> f]
Go(m, currentTable) ==
  [databaseMap |-> m, currentTable |-> currentTable, failure |-> NoError]

\* a COLUMN directive that takes a column the table does not hold: told
\* apart from readMapFile_column by C25_ColumnDirective
readMapFile_column_undeclared(m, currentTable, lineNumber, szToken1, szToken2) ==
  IF currentTable = ""
    THEN Raise(m, currentTable, CodedError(E_SQLWRITER_SYNTAXERROR, lineNumber))
  ELSE IF szToken1 = ""
    THEN Raise(m, currentTable, CodedError(E_SQLWRITER_SYNTAXERROR, lineNumber))
  ELSE IF szToken2 # ""
    THEN Go(setColumnMap(m, currentTable, szToken1, szToken2), currentTable)
  ELSE Go(m, currentTable)

\* the COLUMN directive
readMapFile_column(m, currentTable, lineNumber, szToken1, szToken2) ==
  IF currentTable = ""
    THEN Raise(m, currentTable, CodedError(E_SQLWRITER_SYNTAXERROR, lineNumber))
  ELSE IF szToken1 = ""
    THEN Raise(m, currentTable, CodedError(E_SQLWRITER_SYNTAXERROR, lineNumber))
  ELSE IF szToken1 \notin DOMAIN m[currentTable].columnData
    THEN Raise(m, currentTable, MessageError(E_INVALIDCOLUMNNAME, lineNumber))
  ELSE IF szToken2 # ""
    THEN Go(setColumnMap(m, currentTable, szToken1, szToken2), currentTable)
  ELSE Go(m, currentTable)

\* a TABLE directive that opens its table over the one that is open: told
\* apart from readMapFile_table by C26_TableDirective
readMapFile_table_nested(m, currentTable, lineNumber, szToken1, szToken2) ==
  IF szToken1 = ""
    THEN Raise(m, currentTable, CodedError(E_SQLWRITER_SYNTAXERROR, lineNumber))
  ELSE IF szToken1 \notin DOMAIN m
    THEN Raise(m, currentTable,
               CodedError(E_SQLWRITER_INVALIDTABLENAME, lineNumber))
  ELSE IF szToken2 # ""
    THEN Go(setTableMap(m, szToken1, szToken2), szToken1)
  ELSE Go(m, szToken1)

\* the TABLE directive
readMapFile_table(m, currentTable, lineNumber, szToken1, szToken2) ==
  IF currentTable # ""
    THEN Raise(m, currentTable, CodedError(E_SQLWRITER_SYNTAXERROR, lineNumber))
  ELSE IF szToken1 = ""
    THEN Raise(m, currentTable, CodedError(E_SQLWRITER_SYNTAXERROR, lineNumber))
  ELSE IF szToken1 \notin DOMAIN m
    THEN Raise(m, currentTable,
               CodedError(E_SQLWRITER_INVALIDTABLENAME, lineNumber))
  ELSE IF szToken2 # ""
    THEN Go(setTableMap(m, szToken1, szToken2), szToken1)
  ELSE Go(m, szToken1)

\* an END directive that closes the scope whatever the line carries: told
\* apart from readMapFile_end by C27_EndDirective
readMapFile_end_lax(m, currentTable, lineNumber, found) == Go(m, "")

\* the END directive; found is whether any of '[', ']', '=' is on the line
readMapFile_end(m, currentTable, lineNumber, found) ==
  IF ~found THEN Go(m, "")
  ELSE Raise(m, currentTable, CodedError(E_SQLWRITER_SYNTAXERROR, lineNumber))

\* one pass of the loop body over a line that is not skipped: the map and
\* the open table after it, or the failure raised
readMapFile_directive(m, currentTable, lineNumber, textLine) ==
  LET spacePosn == find_first_of(textLine, " ", 0)
      szCommand == trim(substr(textLine, 0, spacePosn))
      equalPosn == find_first_of(textLine, "=", 0)
      token1S == find_first_of(textLine, "[", 0)
      token1E == find_first_of(textLine, "]", 0)
      token2S == find_first_of(textLine, "[", equalPosn)
      token2E == find_first_of(textLine, "]", equalPosn)
      szToken1 == IF token1S < token1E
                  THEN Str(substr(textLine, token1S + 1, token1E - token1S - 1))
                  ELSE ""
      szToken2 == IF token2S < token2E
                  THEN Str(substr(textLine, token2S + 1, token2E - token2S - 1))
                  ELSE ""
  IN IF ~(token1S < token1E) /\ szCommand # END
       THEN Raise(m, currentTable, MessageError(E_NEEDSTOKEN, lineNumber))
     ELSE IF szCommand = COLUMN
       THEN readMapFile_column(m, currentTable, lineNumber, szToken1, szToken2)
     ELSE IF szCommand = TABLE
       THEN readMapFile_table(m, currentTable, lineNumber, szToken1, szToken2)
     ELSE IF szCommand = END
       THEN readMapFile_end(m, currentTable, lineNumber,
                            ~(/\ token1S = npos /\ token1E = npos
                              /\ token2S = npos /\ token2E = npos
                              /\ equalPosn = npos))
     ELSE Raise(m, currentTable,
                CodedError(E_SQLWRITER_INVALIDCOMMAND, lineNumber))

\* one pass of the loop body: lines of at most one character and lines
\* starting with ';' are passed over
readMapFile_line(m, currentTable, lineNumber, textLine) ==
  IF Len(textLine) > 1 /\ textLine[1] # ";"
    THEN readMapFile_directive(m, currentTable, lineNumber, textLine)
  ELSE [databaseMap |-> m, currentTable |-> currentTable, failure |-> NoError]

\* the load as it stands: the locals of readMapFile, how many lines getline
\* has handed it, and how it ended
IdleReader ==
  [status |-> "idle", lineNumber |-> 1, currentTable |-> "",
   textLine |-> <<>>, linesRead |-> 0, failure |-> NoError]

----------------------------------------------------------------------------
(* Arguments the calls are made with *)

MaxSize == 2

Tables == {"t"}
FieldLists == {<<"x">>}
InsertFieldLists == {<<"a", "b">>}
TableLists == {<<"t1", "t2">>}
CountExpressions == {"*"}
LimitNumbers == {10}
OffsetNumbers == {5}

Triple1 == <<"ModificationType", "=", IntParam(1)>>
Triple2 == <<"name", "LIKE", StringParam("s")>>
Triple3 == <<"id", "<>", BindParam("id")>>
Triple4 == <<"id", "REGEXP", IntParam(2)>>
WhereLists == {<<Triple1>>, <<Triple2, Triple3>>, <<Triple4>>}

SetPairs == {Pair("a", IntParam(1)), Pair("b", StringParam("s"))}
SetLists == {<<Pair("c", BindParam("id")), Pair("d", IntParam(2))>>}

ValueLists ==
  {<<<<IntParam(1), StringParam("s"), BindParam(":v")>>>>,
   <<<<IntParam(1), IntParam(2)>>, <<IntParam(3), IntParam(4)>>>>}

OrderByLists == {<<Pair("a", ASC)>>}
JoinLists == {<<<<"t", "id", JOIN_LEFT, "u", "tid">>>>}

Columns == {"c"}
PhysicalNames == {"p"}

\* what the accumulating mutators have added to a writer: the entries of
\* its lists, its optionals, its flag (selectFields is set by the entry
\* methods alone, from one argument list at most)
Size(q) ==
  Len(q.fromFields) + Len(q.joinFields)
  + Len(q.whereFields) + Len(q.orderByFields) + Len(q.setFields)
  + Len(q.valueFields) + Len(q.maxFields) + Len(q.minFields)
  + (IF q.limitValue.has THEN 1 ELSE 0) + (IF q.offsetValue.has THEN 1 ELSE 0)
  + (IF q.countValue.has THEN 1 ELSE 0) + (IF q.distinct_ THEN 1 ELSE 0)

\* what a schema map holds: tables, columns and physical names
RECURSIVE SumOver(_, _)
SumOver(S, f) ==
  IF S = {} THEN 0
  ELSE LET x == CHOOSE y \in S : TRUE IN f[x] + SumOver(S \ {x}, f)

MapSize(m) ==
  SumOver(DOMAIN m,
    [t \in DOMAIN m |->
       1 + (IF m[t].tableName.second # "" THEN 1 ELSE 0)
         + SumOver(DOMAIN m[t].columnData,
             [c \in DOMAIN m[t].columnData |->
                1 + (IF m[t].columnData[c].columnName.second # "" THEN 1
                     ELSE 0)])])

----------------------------------------------------------------------------
(* The state machine: one action per public call *)

Init ==
  /\ w = EmptyWriter
  /\ dialect \in Dialects
  /\ databaseMap = EmptyMap
  /\ result = NoResult
  /\ lastCall = "sqlWriter"
  /\ prevType = qt_none
  /\ reader = IdleReader

\* a mutator call: the writer changes, the call returns the writer
Call(name, q) ==
  /\ Size(q) + MapSize(databaseMap) <= MaxSize
  /\ w' = q
  /\ lastCall' = name
  /\ prevType' = w.queryType
  /\ result' = NoResult
  /\ UNCHANGED <<dialect, databaseMap, reader>>

Count == \E e \in CountExpressions : Call("count", count(w, e))

Distinct == Call("distinct", distinct(w))

From == \E t \in Tables : Call("from", from(w, t, ""))

FromList == \E l \in TableLists : Call("from_list", from_list(w, l))

Max == Call("max", max(w, "a", "m"))

Min == Call("min", min(w, "b", ""))

Join == \E l \in JoinLists : Call("join", join(w, l))

Limit == \E n \in LimitNumbers : Call("limit", limit(w, n))

Offset == \E n \in OffsetNumbers : Call("offset", offset(w, n))

OrderBy == \E l \in OrderByLists : Call("orderBy", orderBy(w, l))

ResetQuery == Call("resetQuery", resetQuery(w))

ResetWhere == Call("resetWhere", resetWhere(w))

DeleteFrom == \E t \in Tables : Call("deleteFrom", deleteFrom(w, t))

InsertInto == \E t \in Tables : Call("insertInto", insertInto(w, t))

InsertIntoFields ==
  \E t \in Tables, l \in InsertFieldLists :
    Call("insertInto_fields", insertInto_fields(w, t, l))

Select == Call("select", select(w))

SelectFields == \E l \in FieldLists : Call("select_fields", select_fields(w, l))

SelectTable ==
  \E t \in Tables, l \in FieldLists :
    Call("select_table", select_table(w, t, l))

Set == \E p \in SetPairs : Call("set", set(w, p.first, p.second))

SetList == \E l \in SetLists : Call("set_list", set_list(w, l))

Update == \E t \in Tables : Call("update", update(w, t))

Upsert == \E t \in Tables : Call("upsert", upsert(w, t))

Values == \E l \in ValueLists : Call("values", values(w, l))

Where == \E l \in WhereLists : Call("where", where(w, l))

\* a schema map call: the map changes, the clauses do not
MapCall(name, m) ==
  /\ Size(w) + MapSize(m) <= MaxSize
  /\ databaseMap' = m
  /\ lastCall' = name
  /\ prevType' = w.queryType
  /\ result' = NoResult
  /\ UNCHANGED <<w, dialect, reader>>

CreateTable ==
  \E t \in Tables : MapCall("createTable", createTable(databaseMap, t))

CreateColumn ==
  \E t \in Tables, c \in Columns :
    MapCall("createColumn", createColumn(databaseMap, t, c))

SetTableMap ==
  \E t \in Tables, p \in PhysicalNames :
    MapCall("setTableMap", setTableMap(databaseMap, t, p))

SetColumnMap ==
  \E t \in Tables, c \in Columns, p \in PhysicalNames :
    MapCall("setColumnMap", setColumnMap(databaseMap, t, c, p))

\* a string() that consumes the where fields it rendered: told apart from
\* String by C6_RenderIdempotentReadOnly
String_consuming ==
  /\ result' = string(w, dialect)
  /\ lastCall' = "string"
  /\ prevType' = w.queryType
  /\ w' = [w EXCEPT !.whereFields = <<>>]
  /\ UNCHANGED <<dialect, databaseMap, reader>>

\* string() is const: it returns the statement or raises, and changes nothing
String ==
  /\ result' = string(w, dialect)
  /\ lastCall' = "string"
  /\ prevType' = w.queryType
  /\ UNCHANGED <<w, dialect, databaseMap, reader>>

Next ==
  \/ Count \/ Distinct \/ From \/ FromList \/ Max \/ Min \/ Join \/ Limit
  \/ Offset \/ OrderBy \/ ResetQuery \/ ResetWhere \/ DeleteFrom
  \/ InsertInto \/ InsertIntoFields \/ Select \/ SelectFields \/ SelectTable
  \/ Set \/ SetList \/ Update \/ Upsert \/ Values \/ Where \/ String
  \/ CreateTable \/ CreateColumn \/ SetTableMap \/ SetColumnMap

Spec == Init /\ [][Next]_vars

----------------------------------------------------------------------------
(* The Select statement in depth: the calls that build and render a        *)
(* Select, made on the constructed writer, with room for every clause of   *)
(* the projection and of the limit at once                                 *)

MaxSelectSize == 4

Aliases == {"", "a"}
MaxColumns == {"a", "c"}

SelectCall(name, q) ==
  /\ Size(q) <= MaxSelectSize
  /\ w' = q
  /\ lastCall' = name
  /\ prevType' = w.queryType
  /\ result' = NoResult
  /\ UNCHANGED <<dialect, databaseMap, reader>>

Select_select ==
  \E l \in FieldLists : SelectCall("select_fields", select_fields(w, l))

Select_count == \E e \in CountExpressions : SelectCall("count", count(w, e))

Select_max == \E c \in MaxColumns : SelectCall("max", max(w, c, "m"))

Select_min == SelectCall("min", min(w, "b", ""))

Select_distinct == SelectCall("distinct", distinct(w))

Select_from ==
  \E t \in Tables, a \in Aliases : SelectCall("from", from(w, t, a))

Select_from_list ==
  \E l \in TableLists : SelectCall("from_list", from_list(w, l))

Select_limit == \E n \in LimitNumbers : SelectCall("limit", limit(w, n))

Select_offset == \E n \in OffsetNumbers : SelectCall("offset", offset(w, n))

Select_where == \E l \in WhereLists : SelectCall("where", where(w, l))

SelectNext ==
  \/ Select_select \/ Select_count \/ Select_max \/ Select_min
  \/ Select_distinct \/ Select_from \/ Select_from_list \/ Select_limit
  \/ Select_offset \/ Select_where \/ String

SelectSpec == Init /\ [][SelectNext]_vars

----------------------------------------------------------------------------
(* The schema map in depth: the calls that declare and map names, and      *)
(* readMapFile taking the file one line per pass of its loop; no other     *)
(* call is made while a load is under way                                  *)

MaxMapSize == 4
MaxLines == 4

MapTables == {"t", "u"}
MapColumns == {"c"}
MapNames == {"x"}

\* <command> [<token1>]=[<token2>]
Directive(command, token1, token2) ==
  command \o <<" ", "[">> \o token1 \o <<"]", "=", "[">> \o token2 \o <<"]">>

\* <command> [<token1>]
Directive1(command, token1) == command \o <<" ", "[">> \o token1 \o <<"]">>

TableLines ==
  {Directive(TABLE, <<"t">>, <<"p">>), Directive1(TABLE, <<"t">>),
   Directive(TABLE, <<"t">>, <<>>), Directive(TABLE, <<>>, <<"p">>),
   Directive(TABLE, <<"u">>, <<"p">>), Directive(TABLE, <<"t">>, <<"q">>),
   TABLE}

ColumnLines ==
  {Directive(COLUMN, <<"c">>, <<"q">>), Directive(COLUMN, <<"c">>, <<>>),
   Directive(COLUMN, <<>>, <<"q">>), Directive(COLUMN, <<"d">>, <<"q">>)}

EndLines ==
  {END, Directive1(END, <<"t">>), END \o <<" ", "=">>, END \o <<" ", "]">>}

SkippedLines == {<<";">> \o Directive(TABLE, <<"u">>, <<"p">>), <<>>, <<"X">>}

OtherLines == {Directive(<<"I", "N", "D", "E", "X">>, <<"c">>, <<"q">>)}

Lines == TableLines \cup ColumnLines \cup EndLines \cup SkippedLines \cup OtherLines

MapApiCall(name, m) ==
  /\ reader.status # "reading"
  /\ MapSize(m) <= MaxMapSize
  /\ databaseMap' = m
  /\ lastCall' = name
  /\ prevType' = w.queryType
  /\ result' = NoResult
  /\ UNCHANGED <<w, dialect, reader>>

Map_createTable ==
  \E t \in MapTables : MapApiCall("createTable", createTable(databaseMap, t))

Map_createColumn ==
  \E t \in MapTables, c \in MapColumns :
    MapApiCall("createColumn", createColumn(databaseMap, t, c))

Map_setTableMap ==
  \E t \in MapTables, p \in MapNames :
    MapApiCall("setTableMap", setTableMap(databaseMap, t, p))

Map_setColumnMap ==
  \E t \in MapTables, c \in MapColumns, p \in MapNames :
    MapApiCall("setColumnMap", setColumnMap(databaseMap, t, c, p))

ReaderStep(r, m) ==
  /\ reader' = r
  /\ databaseMap' = m
  /\ lastCall' = "readMapFile"
  /\ prevType' = w.queryType
  /\ result' = NoResult
  /\ UNCHANGED <<w, dialect>>

\* readMapFile is called and the file does not open
ReadMapFile_notOpen ==
  /\ reader.status # "reading"
  /\ ReaderStep([IdleReader EXCEPT !.status = "failed",
                   !.failure = MessageError(E_COULDNOTOPEN, 0)], databaseMap)

\* readMapFile is called and the file opens
ReadMapFile_open ==
  /\ reader.status # "reading"
  /\ ReaderStep([IdleReader EXCEPT !.status = "reading"], databaseMap)

\* a pass of the loop that counts the lines it does not skip only: told
\* apart from ReadMapFile_getline by C29_FailureAtFirstOffendingLine
ReadMapFile_getline_countDirectives ==
  /\ reader.status = "reading"
  /\ reader.lineNumber <= MaxLines
  /\ \E textLine \in Lines :
       LET after == readMapFile_line(databaseMap, reader.currentTable,
                                     reader.lineNumber, textLine)
       IN IF after.failure = NoError
            THEN ReaderStep([reader EXCEPT
                               !.lineNumber =
                                 IF textLine \in SkippedLines
                                 THEN reader.lineNumber
                                 ELSE reader.lineNumber + 1,
                               !.currentTable = after.currentTable,
                               !.textLine = textLine,
                               !.linesRead = reader.linesRead + 1],
                            after.databaseMap)
          ELSE ReaderStep([reader EXCEPT
                             !.status = "failed",
                             !.textLine = textLine,
                             !.linesRead = reader.linesRead + 1,
                             !.failure = after.failure],
                          after.databaseMap)

\* one pass of the loop: getline and the directive of the line
ReadMapFile_getline ==
  /\ reader.status = "reading"
  /\ reader.lineNumber <= MaxLines
  /\ \E textLine \in Lines :
       LET after == readMapFile_line(databaseMap, reader.currentTable,
                                     reader.lineNumber, textLine)
       IN IF after.failure = NoError
            THEN ReaderStep([reader EXCEPT
                               !.lineNumber = reader.lineNumber + 1,
                               !.currentTable = after.currentTable,
                               !.textLine = textLine,
                               !.linesRead = reader.linesRead + 1],
                            after.databaseMap)
          ELSE ReaderStep([reader EXCEPT
                             !.status = "failed",
                             !.textLine = textLine,
                             !.linesRead = reader.linesRead + 1,
                             !.failure = after.failure],
                          after.databaseMap)

\* an end of the stream that is a failure while a table scope is open: told
\* apart from ReadMapFile_eof by C33_ScopeBalanceNotEnforced
ReadMapFile_eof_balanced ==
  /\ reader.status = "reading"
  /\ IF reader.currentTable = ""
       THEN ReaderStep([reader EXCEPT !.status = "done"], databaseMap)
     ELSE ReaderStep([reader EXCEPT
                        !.status = "failed",
                        !.failure = CodedError(E_SQLWRITER_SYNTAXERROR,
                                               reader.lineNumber)],
                     databaseMap)

\* the stream is no longer good: the loop ends and readMapFile returns
ReadMapFile_eof ==
  /\ reader.status = "reading"
  /\ ReaderStep([reader EXCEPT !.status = "done"], databaseMap)

MapNext ==
  \/ Map_createTable \/ Map_createColumn \/ Map_setTableMap
  \/ Map_setColumnMap
  \/ ReadMapFile_notOpen \/ ReadMapFile_open \/ ReadMapFile_getline
  \/ ReadMapFile_eof

MapSpec == Init /\ [][MapNext]_vars

----------------------------------------------------------------------------
(* Vocabulary of the properties *)

EntryCalls ==
  {"deleteFrom", "insertInto", "insertInto_fields", "select", "select_fields",
   "select_table", "update", "upsert"}

SelectCalls == {"select", "select_fields", "select_table"}

IsPrefix(s, t) == Len(s) <= Len(t) /\ SubSeq(t, 1, Len(s)) = s

\* what each form of select() puts into selectFields from its arguments
SelectArguments(call) ==
  CASE call = "select" -> {<<>>}
    [] call = "select_fields" -> FieldLists
    [] call = "select_table" ->
         {[k \in 1..Len(l) |-> t \o "." \o l[k]] : t \in Tables, l \in FieldLists}

\* a writer holding nothing but what an entry method sets from its arguments
FreshEntry(call) ==
  CASE call \in SelectCalls ->
         {[EmptyWriter EXCEPT !.queryType = qt_select, !.selectFields = l] :
            l \in SelectArguments(call)}
    [] call = "insertInto" ->
         {[EmptyWriter EXCEPT !.queryType = qt_insert, !.insertTable = t] :
            t \in Tables}
    [] call = "insertInto_fields" ->
         {[EmptyWriter EXCEPT !.queryType = qt_insert, !.insertTable = t,
                              !.selectFields = l] :
            t \in Tables, l \in InsertFieldLists}
    [] call = "update" ->
         {[EmptyWriter EXCEPT !.queryType = qt_update, !.updateTable = t] :
            t \in Tables}
    [] call = "deleteFrom" ->
         {[EmptyWriter EXCEPT !.queryType = qt_delete, !.deleteTable = t] :
            t \in Tables}
    [] call = "upsert" ->
         {[EmptyWriter EXCEPT !.queryType = qt_upsert, !.insertTable = t] :
            t \in Tables}

\* the clause members other than selectFields are empty or unset
OtherClausesEmpty(q) ==
  /\ q.fromFields = <<>> /\ q.joinFields = <<>> /\ q.whereFields = <<>>
  /\ q.orderByFields = <<>> /\ q.setFields = <<>> /\ q.valueFields = <<>>
  /\ ~q.limitValue.has /\ ~q.offsetValue.has /\ ~q.countValue.has
  /\ ~q.distinct_ /\ q.maxFields = <<>> /\ q.minFields = <<>>

\* no clause member of q has lost anything in q2
RemovesNothing(q, q2) ==
  /\ IsPrefix(q.selectFields, q2.selectFields)
  /\ IsPrefix(q.fromFields, q2.fromFields)
  /\ IsPrefix(q.joinFields, q2.joinFields)
  /\ IsPrefix(q.whereFields, q2.whereFields)
  /\ IsPrefix(q.orderByFields, q2.orderByFields)
  /\ IsPrefix(q.setFields, q2.setFields)
  /\ IsPrefix(q.valueFields, q2.valueFields)
  /\ IsPrefix(q.maxFields, q2.maxFields)
  /\ IsPrefix(q.minFields, q2.minFields)
  /\ (q.limitValue.has => q2.limitValue.has)
  /\ (q.offsetValue.has => q2.offsetValue.has)
  /\ (q.countValue.has => q2.countValue.has)
  /\ (q.distinct_ => q2.distinct_)

----------------------------------------------------------------------------
(* C1: an entry method called while a query of a different kind is active  *)
(* leaves the writer holding the new kind and what the call's own          *)
(* arguments set, and nothing else: every clause member and every target   *)
(* table name of the previous kind is empty.                               *)
C1_KindSwitchClearsAll ==
  (lastCall \in EntryCalls /\ prevType # qt_none /\ prevType # w.queryType)
    => w \in FreshEntry(lastCall)

C3_WhereBeforeSelectRenders ==
  (/\ lastCall = "string"
   /\ w = [EmptyWriter EXCEPT !.queryType = qt_select,
                              !.selectFields = <<"x">>,
                              !.fromFields = <<Pair("t", "")>>,
                              !.whereFields = <<Triple1>>])
    => result = Ok("SELECT x FROM t WHERE (ModificationType = 1)")

(* C4: after resetQuery() the kind is None and every member of the writer  *)
(* is empty or unset, the insert, update and delete table names included.  *)
C4_ResetQueryClearsAll ==
  lastCall = "resetQuery" => w = EmptyWriter

C6_RenderIdempotentReadOnly ==
  [][lastCall' = "string" =>
       /\ w' = w
       /\ databaseMap' = databaseMap
       /\ dialect' = dialect
       /\ result' # NoResult
       /\ lastCall = "string" => result' = result]_vars

C6_Witness ==
  /\ lastCall = "string"
  /\ result.ok
  /\ w.queryType = qt_update
  /\ Len(w.setFields) = 2

----------------------------------------------------------------------------
HasProjection(q) ==
  \/ q.selectFields # <<>> \/ q.countValue.has
  \/ q.maxFields # <<>> \/ q.minFields # <<>>

(* C7: a string() call that fails leaves the writer as it was, and once    *)
(* the clause it missed is supplied by an accumulating mutator (a FROM     *)
(* source, a projection, a SET field) without re-entering the kind, the    *)
(* next string() returns a statement, nothing accumulated being lost.      *)
C7_FailedRenderRetryable ==
  [][/\ (lastCall' = "string" /\ ~result'.ok) => w' = w
     /\ (/\ lastCall = "string"
         /\ \/ /\ result.err = E_SQLWRITER_NOFROMFIELD
               /\ lastCall' \in {"from", "from_list"}
            \/ /\ result.err = E_SQLWRITER_NOSELECTFIELDS
               /\ w.fromFields # <<>>
               /\ lastCall' \in {"count", "max", "min"}
            \/ /\ result.err = ASSERT_SETFIELDS
               /\ lastCall' \in {"set", "set_list"})
          => /\ string(w', dialect').ok
             /\ RemovesNothing(w, w')
             /\ w'.queryType = w.queryType]_vars

(* C8: a Select renders only with a projection (select fields, count, min  *)
(* or max) and a FROM source; without either string() fails and returns    *)
(* no statement, and without a projection the failure is the missing       *)
(* projection one, whether or not a FROM source is there.                  *)
C8_SelectRequiresProjectionAndFrom ==
  (lastCall = "string" /\ w.queryType = qt_select)
    => /\ result.ok => (HasProjection(w) /\ w.fromFields # <<>>)
       /\ ~HasProjection(w) => result = Fail(E_SQLWRITER_NOSELECTFIELDS)
       /\ (HasProjection(w) /\ w.fromFields = <<>>)
            => result = Fail(E_SQLWRITER_NOFROMFIELD)
       /\ ~result.ok => result.str = ""

C8_Witness ==
  /\ lastCall = "string"
  /\ w.queryType = qt_select
  /\ ~HasProjection(w)
  /\ w.fromFields = <<>>
  /\ result = Fail(E_SQLWRITER_NOSELECTFIELDS)

----------------------------------------------------------------------------
\* "col = val, col = val, ..." for a non-empty list of SET fields, in order
RECURSIVE Assignments(_)
Assignments(fields) ==
  LET n == Len(fields)
      last == fields[n].first \o " = " \o renderValueWithBind(fields[n].second)
  IN IF n = 1 THEN last
     ELSE Assignments(SubSeq(fields, 1, n - 1)) \o ", " \o last

(* C9: an Update with no SET field fails and returns no statement; with    *)
(* SET fields it renders UPDATE <table> SET <col = val, ...> (followed by   *)
(* the WHERE clause), the assignments in the order of the set() calls:     *)
(* each set() call appends its fields after those already held.            *)
C9_UpdateRequiresSetInCallOrder ==
  [][/\ (lastCall' = "string" /\ w'.queryType = qt_update) =>
          IF w'.setFields = <<>>
          THEN ~result'.ok /\ result'.str = ""
          ELSE result' = Ok("UPDATE " \o w'.updateTable \o " SET "
                            \o Assignments(w'.setFields)
                            \o createWhereClause(w'))
     /\ lastCall' = "set" =>
          \E p \in SetPairs : w'.setFields = Append(w.setFields, p)
     /\ lastCall' = "set_list" =>
          \E l \in SetLists : w'.setFields = w.setFields \o l]_vars

C9_Witness ==
  /\ lastCall = "string"
  /\ w.queryType = qt_update
  /\ w.setFields = <<Pair("b", StringParam("s")), Pair("a", IntParam(1))>>
  /\ result = Ok("UPDATE t SET b = 's', a = 1 WHERE ")

(* C10: upsert(table) enters Upsert kind whatever the dialect; string() in *)
(* Upsert kind returns a statement when the dialect is MySQL and fails     *)
(* for every other dialect, whatever where and SET fields are held.        *)
C10_UpsertOnlyMySQL ==
  /\ lastCall = "upsert" => w.queryType = qt_upsert
  /\ (lastCall = "string" /\ w.queryType = qt_upsert)
       => /\ result.ok <=> dialect = MYSQL
          /\ ~result.ok => result.str = ""

C10_Witness ==
  /\ lastCall = "string"
  /\ w.queryType = qt_upsert
  /\ dialect = POSTGRE
  /\ w.whereFields # <<>>
  /\ w.setFields # <<>>
  /\ ~result.ok

----------------------------------------------------------------------------
(* C11: in MICROSOFT dialect, string() of a Select that has a projection,  *)
(* a FROM source and a limit returns a statement, which begins             *)
(* SELECT TOP n and carries no trailing LIMIT clause: select({"x"}),       *)
(* from("t"), limit(10) gives SELECT TOP 10 x FROM t.                      *)
C11_MicrosoftTopRenders ==
  (/\ lastCall = "string"
   /\ dialect = MICROSOFT
   /\ w.queryType = qt_select
   /\ HasProjection(w)
   /\ w.fromFields # <<>>
   /\ w.limitValue.has)
    => /\ result.ok
       /\ w = [EmptyWriter EXCEPT !.queryType = qt_select,
                                  !.selectFields = <<"x">>,
                                  !.fromFields = <<Pair("t", "")>>,
                                  !.limitValue = SomeNumber(10)]
            => result.str = "SELECT TOP 10 x FROM t"

\* the trailing limit text MySQL is given, from the limit and the offset
MySQLLimitText(q) ==
  IF q.offsetValue.has /\ q.limitValue.has
  THEN "LIMIT " \o ToString(q.offsetValue.v) \o ", "
         \o ToString(q.limitValue.v) \o " "
  ELSE IF q.offsetValue.has
  THEN "LIMIT " \o ToString(q.offsetValue.v) \o ", 18446744073709551615 "
  ELSE IF q.limitValue.has
  THEN "LIMIT " \o ToString(q.limitValue.v) \o " "
  ELSE ""

WithoutLimit(q) == [q EXCEPT !.limitValue = NoNumber, !.offsetValue = NoNumber]

(* C12: in MYSQL dialect a rendered Select is the Select without limit and *)
(* offset followed by LIMIT <offset>, <limit> when both are set, by        *)
(* LIMIT <offset>, 18446744073709551615 when only the offset is set, by    *)
(* LIMIT <limit> when only the limit is set, and by nothing otherwise;     *)
(* limit() then offset() leaves the writer offset() then limit() leaves.   *)
C12_MySQLLimitClause ==
  /\ (lastCall = "string" /\ dialect = MYSQL /\ w.queryType = qt_select
        /\ result.ok)
       => result.str = string(WithoutLimit(w), MYSQL).str \o MySQLLimitText(w)
  /\ \A n \in LimitNumbers, m \in OffsetNumbers :
       limit(offset(w, m), n) = offset(limit(w, n), m)

C12_Witness ==
  /\ lastCall = "string"
  /\ dialect = MYSQL
  /\ w.limitValue = SomeNumber(10)
  /\ w.offsetValue = SomeNumber(5)
  /\ result = Ok("SELECT x FROM tLIMIT 5, 10 ")

----------------------------------------------------------------------------
(* C13: every predicate held in whereFields has an operator verifyOperator *)
(* accepts (=, <>, !=, >, <, >=, <=, BETWEEN, LIKE, IN): none with another *)
(* operator is ever stored, hence none is rendered.                        *)
C13_WhereOperatorsWhitelisted ==
  \A k \in 1..Len(w.whereFields) : verifyOperator(w.whereFields[k][2])

----------------------------------------------------------------------------
\* the items of the projection, group after group
ProjectionItems(q) ==
  q.selectFields
  \o (IF q.countValue.has THEN <<"COUNT(" \o q.countValue.v \o ") ">>
      ELSE <<>>)
  \o [k \in 1..Len(q.maxFields) |->
        "MAX(" \o q.maxFields[k].first \o ")"
          \o (IF q.maxFields[k].second # ""
              THEN " AS " \o q.maxFields[k].second ELSE "")]
  \o [k \in 1..Len(q.minFields) |->
        "MIN(" \o q.minFields[k].first \o ")"
          \o (IF q.minFields[k].second # ""
              THEN " AS " \o q.minFields[k].second ELSE "")]

\* the items of a list, a separator ahead of every item but the first
RECURSIVE JoinWith(_, _)
JoinWith(items, sep) ==
  IF items = <<>> THEN ""
  ELSE IF Len(items) = 1 THEN items[1]
  ELSE JoinWith(SubSeq(items, 1, Len(items) - 1), sep) \o sep
         \o items[Len(items)]

\* what a rendered Select holds after its projection
SelectTail(q, d) ==
  createFromClause(q)
  \o (IF q.joinFields # <<>> THEN createJoinClause(q).str ELSE "")
  \o (IF q.whereFields # <<>> THEN createWhereClause(q) ELSE "")
  \o (IF q.orderByFields # <<>> THEN createOrderByClause(q) ELSE "")
  \o createLimitClause(q, d).str

(* C14: a rendered Select lists its projection as the select fields, then  *)
(* the COUNT expression, then the MAX entries, then the MIN entries, with  *)
(* ", " ahead of every item but the first; count(), max() and min() leave  *)
(* the other groups alone and max() and min() append to their own group,   *)
(* so the order in which they were called does not show.                   *)
C14_ProjectionOrder ==
  [][/\ (lastCall' = "string" /\ w'.queryType = qt_select /\ result'.ok)
          => result'.str =
               "SELECT " \o (IF w'.distinct_ THEN "DISTINCT " ELSE "")
                 \o JoinWith(ProjectionItems(w'), ", ")
                 \o SelectTail(w', dialect')
     /\ lastCall' = "count"
          => \E e \in CountExpressions :
               w' = [w EXCEPT !.countValue = SomeString(e)]
     /\ lastCall' = "max"
          => \E c \in MaxColumns :
               w' = [w EXCEPT !.maxFields = Append(@, Pair(c, "m"))]
     /\ lastCall' = "min"
          => w' = [w EXCEPT !.minFields = Append(@, Pair("b", ""))]]_vars

C14_Witness ==
  /\ lastCall = "string"
  /\ result = Ok("SELECT x, COUNT(*) , MAX(c) AS m, MIN(b) FROM t")

----------------------------------------------------------------------------
\* one predicate: (col op val), a text value in single quotes
PredicateText(triple) ==
  "(" \o triple[1] \o " " \o triple[2] \o " "
    \o (IF triple[3].type = "string" THEN "'" \o triple[3].s \o "'"
        ELSE to_string(triple[3]))
    \o ")"

WhereText(fields) ==
  JoinWith([k \in 1..Len(fields) |-> PredicateText(fields[k])], " AND ")

(* C15: the WHERE clause is WHERE followed by one (col op val) group per   *)
(* predicate held, in the order the where() calls added them, with " AND " *)
(* between two groups and nowhere else, a text value in single quotes and  *)
(* any other value bare; a rendered Select with predicates carries it      *)
(* between its FROM clause and its limit clause.                           *)
C15_WhereClauseRendering ==
  [][/\ createWhereClause(w') = " WHERE " \o WhereText(w'.whereFields)
     /\ lastCall' = "where"
          => \E l \in WhereLists : w'.whereFields = w.whereFields \o l
     /\ (/\ lastCall' = "string" /\ w'.queryType = qt_select /\ result'.ok
         /\ w'.whereFields # <<>>
         /\ w'.joinFields = <<>> /\ w'.orderByFields = <<>>)
          => result'.str =
               createSelectClause(w', dialect') \o createFromClause(w')
                 \o " WHERE " \o WhereText(w'.whereFields)
                 \o createLimitClause(w', dialect').str]_vars

C15_Witness ==
  /\ lastCall = "string"
  /\ w.whereFields = <<Triple1, Triple2, Triple3>>
  /\ result = Ok("SELECT x FROM t WHERE (ModificationType = 1)"
                   \o " AND (name LIKE 's') AND (id <> id)")

----------------------------------------------------------------------------
\* the text of one FROM source, as createFromClause gives it
SourceText(source) == createFromClause_loop(<<source>>, 1, "")

(* C16: from(table, alias) and from(list) append their sources after the   *)
(* sources already held; the FROM clause is FROM followed by the sources   *)
(* in call order, ", " between two of them, a source named twice listed    *)
(* twice; a rendered Select whose sources have no alias lists their table  *)
(* names so.                                                               *)
C16_FromAccumulates ==
  [][/\ lastCall' = "from"
          => \E t \in Tables, a \in Aliases :
               w' = [w EXCEPT !.fromFields = Append(@, Pair(t, a))]
     /\ lastCall' = "from_list"
          => \E l \in TableLists :
               w' = [w EXCEPT !.fromFields =
                                 @ \o [k \in 1..Len(l) |-> Pair(l[k], "")]]
     /\ createFromClause(w') =
          " FROM " \o JoinWith([k \in 1..Len(w'.fromFields) |->
                                  SourceText(w'.fromFields[k])], ", ")
     /\ (/\ lastCall' = "string" /\ w'.queryType = qt_select /\ result'.ok
         /\ \A k \in 1..Len(w'.fromFields) : w'.fromFields[k].second = "")
          => result'.str =
               createSelectClause(w', dialect') \o " FROM "
                 \o JoinWith([k \in 1..Len(w'.fromFields) |->
                                w'.fromFields[k].first], ", ")
                 \o (IF w'.whereFields # <<>> THEN createWhereClause(w')
                     ELSE "")
                 \o createLimitClause(w', dialect').str]_vars

C16_Witness ==
  /\ lastCall = "string"
  /\ result = Ok("SELECT x FROM t, t1, t2, t")

\* a FROM source as the caller gave it: <table> AS <alias>, or <table>
AliasedSourceText(source) ==
  IF source.second # "" THEN source.first \o " AS " \o source.second
  ELSE source.first

(* C17: a rendered Select lists a source given with a non-empty alias as   *)
(* <table> AS <alias>, the alias being the caller's, and a source given    *)
(* with an empty alias as <table> alone.                                   *)
C17_FromAliasRendered ==
  (lastCall = "string" /\ w.queryType = qt_select /\ result.ok)
    => result.str =
         createSelectClause(w, dialect) \o " FROM "
           \o JoinWith([k \in 1..Len(w.fromFields) |->
                          AliasedSourceText(w.fromFields[k])], ", ")
           \o (IF w.whereFields # <<>> THEN createWhereClause(w) ELSE "")
           \o createLimitClause(w, dialect).str

----------------------------------------------------------------------------
\* a bind value: its name, ':' ahead of it unless it starts with ':' or '?'
BindText(name) ==
  IF front(name) \in {":", "?"} THEN name ELSE ":" \o name

\* a value: text in single quotes, a bind value as its placeholder, any
\* other value bare
ValueText(p) ==
  IF p.type = "string" THEN "'" \o p.s \o "'"
  ELSE IF p.type = "bindValue" THEN BindText(p.s)
  ELSE to_string(p)

RowText(row) ==
  "(" \o JoinWith([k \in 1..Len(row) |-> ValueText(row[k])], ", ") \o ")"

(* C18: string() of an Insert is INSERT INTO t(<fields>) VALUES followed   *)
(* by one (<row>) group per row held, ", " between the fields, the values  *)
(* and the groups, rows in the order values() appended them, whatever the  *)
(* length of a row against the field list; insertInto(t, fields) stores t  *)
(* and the fields in the given order.                                      *)
C18_InsertRendering ==
  [][/\ (lastCall' = "string" /\ w'.queryType = qt_insert)
          => result' =
               Ok("INSERT INTO " \o w'.insertTable \o "("
                    \o JoinWith(w'.selectFields, ", ") \o ") VALUES "
                    \o JoinWith([k \in 1..Len(w'.valueFields) |->
                                   RowText(w'.valueFields[k])], ", "))
     /\ lastCall' = "values"
          => \E l \in ValueLists : w'.valueFields = w.valueFields \o l
     /\ lastCall' = "insertInto_fields"
          => \E t \in Tables, l \in InsertFieldLists :
               /\ w'.queryType = qt_insert
               /\ w'.insertTable = t
               /\ w'.selectFields = l]_vars

C18_Witness ==
  /\ lastCall = "string"
  /\ result = Ok("INSERT INTO t(a, b) VALUES (1, 2), (3, 4)")

----------------------------------------------------------------------------
\* the columns and the values of an upsert: those of the where triples,
\* then those of the SET fields
UpsertColumns(q) ==
  [k \in 1..Len(q.whereFields) |-> q.whereFields[k][1]]
  \o [k \in 1..Len(q.setFields) |-> q.setFields[k].first]

UpsertValues(q) ==
  [k \in 1..Len(q.whereFields) |-> q.whereFields[k][3]]
  \o [k \in 1..Len(q.setFields) |-> q.setFields[k].second]

(* C19: in MYSQL dialect string() of an Upsert is INSERT INTO t(<columns>) *)
(* VALUES (<values>) ON DUPLICATE KEY UPDATE <col = val, ...>: the columns *)
(* are those of the where triples and then those of the SET fields, the    *)
(* values stand at the same positions, both lists are as long as the two   *)
(* field lists together, the update part holds the SET fields in set()     *)
(* order, and no operator of a where triple is written.                    *)
C19_UpsertRendering ==
  [][/\ (lastCall' = "string" /\ w'.queryType = qt_upsert
           /\ dialect' = MYSQL)
          => /\ Len(UpsertColumns(w')) = Len(UpsertValues(w'))
             /\ Len(UpsertColumns(w'))
                  = Len(w'.whereFields) + Len(w'.setFields)
             /\ result' =
                  Ok("INSERT INTO " \o w'.insertTable \o "("
                       \o JoinWith(UpsertColumns(w'), ", ")
                       \o ") VALUES ("
                       \o JoinWith([k \in 1..Len(UpsertValues(w')) |->
                                      renderValue(UpsertValues(w')[k])], ", ")
                       \o ") ON DUPLICATE KEY UPDATE "
                       \o JoinWith([k \in 1..Len(w'.setFields) |->
                                      w'.setFields[k].first \o " = "
                                        \o renderValue(w'.setFields[k].second)],
                                   ", "))
     /\ lastCall' = "set"
          => \E p \in SetPairs : w'.setFields = Append(w.setFields, p)
     /\ lastCall' = "set_list"
          => \E l \in SetLists : w'.setFields = w.setFields \o l]_vars

C19_Witness ==
  /\ lastCall = "string"
  /\ w.queryType = qt_upsert
  /\ result = Ok("INSERT INTO t(ModificationType, b) VALUES (1, 's') "
                   \o "ON DUPLICATE KEY UPDATE b = 's'")

----------------------------------------------------------------------------
\* a predicate whose value is written as a value is everywhere else
BindPredicateText(triple) ==
  "(" \o triple[1] \o " " \o triple[2] \o " " \o ValueText(triple[3]) \o ")"

BindWhereText(q) ==
  " WHERE " \o JoinWith([k \in 1..Len(q.whereFields) |->
                           BindPredicateText(q.whereFields[k])], " AND ")

BindSetText(q) ==
  JoinWith([k \in 1..Len(q.setFields) |->
              q.setFields[k].first \o " = "
                \o ValueText(q.setFields[k].second)], ", ")

(* C20: wherever string() writes a bind value (a row of an Insert, a SET   *)
(* assignment, a where predicate, a value of an Upsert) it writes the name *)
(* as it is when the name starts with ':' or '?', and ':' and the name     *)
(* otherwise, never in quotes.                                             *)
C20_BindPlaceholderRendering ==
  lastCall = "string" =>
    /\ w.queryType = qt_insert
         => result.str =
              "INSERT INTO " \o w.insertTable \o "("
                \o JoinWith(w.selectFields, ", ") \o ") VALUES "
                \o JoinWith([k \in 1..Len(w.valueFields) |->
                               RowText(w.valueFields[k])], ", ")
    /\ (w.queryType = qt_update /\ w.setFields # <<>>)
         => result.str =
              "UPDATE " \o w.updateTable \o " SET " \o BindSetText(w)
                \o BindWhereText(w)
    /\ w.queryType = qt_delete
         => result.str = "DELETE FROM " \o w.deleteTable \o BindWhereText(w)
    /\ (w.queryType = qt_upsert /\ dialect = MYSQL)
         => result.str =
              "INSERT INTO " \o w.insertTable \o "("
                \o JoinWith(UpsertColumns(w), ", ") \o ") VALUES ("
                \o JoinWith([k \in 1..Len(UpsertValues(w)) |->
                               ValueText(UpsertValues(w)[k])], ", ")
                \o ") ON DUPLICATE KEY UPDATE " \o BindSetText(w)

----------------------------------------------------------------------------
C22_CreateTableOnlyNew ==
  [][/\ \A t \in MapTables :
          LET m2 == createTable(databaseMap, t)
          IN /\ createTable_returns(databaseMap, t) <=> t \notin DOMAIN databaseMap
             /\ t \in DOMAIN databaseMap => m2 = databaseMap
             /\ t \notin DOMAIN databaseMap =>
                   /\ DOMAIN m2 = DOMAIN databaseMap \cup {t}
                   /\ m2[t].tableName = [first |-> t, second |-> ""]
                   /\ DOMAIN m2[t].columnData = {}
                   /\ \A u \in DOMAIN databaseMap : m2[u] = databaseMap[u]
     /\ lastCall' = "createTable" =>
          \/ databaseMap' = databaseMap
          \/ \E t \in MapTables \ DOMAIN databaseMap :
               /\ DOMAIN databaseMap' = DOMAIN databaseMap \cup {t}
               /\ databaseMap'[t].tableName = [first |-> t, second |-> ""]
               /\ DOMAIN databaseMap'[t].columnData = {}
               /\ \A u \in DOMAIN databaseMap :
                    databaseMap'[u] = databaseMap[u]]_vars

\* createTable("t") was called on a map that holds t with an alias and a
\* mapped column, and holds them still
C22_Witness ==
  /\ lastCall = "createTable"
  /\ DOMAIN databaseMap = {"t"}
  /\ databaseMap["t"].tableName.second = "x"
  /\ "c" \in DOMAIN databaseMap["t"].columnData
  /\ databaseMap["t"].columnData["c"].columnName.second = "x"

(* C23: createColumn(table, column) returns true exactly when the table is *)
(* declared and the column is not yet declared under it, and then that     *)
(* table gains that one column, with no physical name, everything else as  *)
(* it was; it returns false when the table is unknown or the column is     *)
(* there, and then the map is as it was: no table appears and the          *)
(* column's physical name stays.                                           *)
C23_CreateColumnOnlyNew ==
  [][/\ \A t \in MapTables, c \in MapColumns :
          LET m2 == createColumn(databaseMap, t, c)
              isNew == /\ t \in DOMAIN databaseMap
                       /\ c \notin DOMAIN databaseMap[t].columnData
          IN /\ createColumn_returns(databaseMap, t, c) <=> isNew
             /\ ~isNew => m2 = databaseMap
             /\ isNew =>
                   /\ DOMAIN m2 = DOMAIN databaseMap
                   /\ m2[t].tableName = databaseMap[t].tableName
                   /\ DOMAIN m2[t].columnData =
                        DOMAIN databaseMap[t].columnData \cup {c}
                   /\ m2[t].columnData[c].columnName =
                        [first |-> c, second |-> ""]
                   /\ \A d \in DOMAIN databaseMap[t].columnData :
                        m2[t].columnData[d] = databaseMap[t].columnData[d]
                   /\ \A u \in DOMAIN databaseMap \ {t} :
                        m2[u] = databaseMap[u]
     /\ lastCall' = "createColumn" =>
          /\ DOMAIN databaseMap' = DOMAIN databaseMap
          /\ \A t \in DOMAIN databaseMap :
               /\ databaseMap'[t].tableName = databaseMap[t].tableName
               /\ \A d \in DOMAIN databaseMap[t].columnData :
                    /\ d \in DOMAIN databaseMap'[t].columnData
                    /\ databaseMap'[t].columnData[d] =
                         databaseMap[t].columnData[d]]_vars

\* createColumn was called on a map whose only table holds the column with
\* a physical name, and holds it still; no second table appeared
C23_Witness ==
  /\ lastCall = "createColumn"
  /\ DOMAIN databaseMap = {"t"}
  /\ DOMAIN databaseMap["t"].columnData = {"c"}
  /\ databaseMap["t"].columnData["c"].columnName.second = "x"

\* the tables declared and, for each, the columns declared under it
Declared(m) == [t \in DOMAIN m |-> DOMAIN m[t].columnData]

(* C24: setTableMap(t, p) on a map that does not hold t, and               *)
(* setColumnMap(t, c, p) on a map that does not hold t or does not hold c  *)
(* under t, return the map as it was; on a declared target they change     *)
(* the physical name of that target and nothing else.  No setTableMap,     *)
(* setColumnMap or readMapFile step changes which tables are declared or   *)
(* which columns are declared under a table.                               *)
C24_MappingNeedsDeclaration ==
  [][/\ \A t \in MapTables, p \in MapNames :
          LET m2 == setTableMap(databaseMap, t, p)
          IN /\ t \notin DOMAIN databaseMap => m2 = databaseMap
             /\ t \in DOMAIN databaseMap =>
                   /\ Declared(m2) = Declared(databaseMap)
                   /\ m2[t].tableName = [first |-> t, second |-> p]
                   /\ m2[t].columnData = databaseMap[t].columnData
                   /\ \A u \in DOMAIN databaseMap \ {t} :
                        m2[u] = databaseMap[u]
     /\ \A t \in MapTables, c \in MapColumns, p \in MapNames :
          LET m2 == setColumnMap(databaseMap, t, c, p)
              declared == /\ t \in DOMAIN databaseMap
                          /\ c \in DOMAIN databaseMap[t].columnData
          IN /\ ~declared => m2 = databaseMap
             /\ declared =>
                   /\ Declared(m2) = Declared(databaseMap)
                   /\ m2[t].tableName = databaseMap[t].tableName
                   /\ m2[t].columnData[c].columnName =
                        [first |-> c, second |-> p]
                   /\ \A d \in DOMAIN databaseMap[t].columnData \ {c} :
                        m2[t].columnData[d] = databaseMap[t].columnData[d]
                   /\ \A u \in DOMAIN databaseMap \ {t} :
                        m2[u] = databaseMap[u]
     /\ lastCall' \in {"setTableMap", "setColumnMap", "readMapFile"} =>
          Declared(databaseMap') = Declared(databaseMap)]_vars

\* setTableMap was called for a table that is not declared (u, or t before
\* any declaration) and no table is declared
C24_Witness ==
  /\ lastCall = "setTableMap"
  /\ databaseMap = EmptyMap

\* the step is one pass of the loop of readMapFile over the line given
Reads(textLine) ==
  /\ reader.status = "reading"
  /\ reader'.linesRead = reader.linesRead + 1
  /\ reader'.textLine = textLine

\* the pass took the line and the load goes on / the pass made the load fail
Accepted == reader'.status = "reading" /\ reader'.failure = NoError
Rejected == reader'.status = "failed" /\ reader'.failure # NoError

\* the names and physical names the directives of the files carry
TokenNames == {<<>>, <<"c">>, <<"d">>, <<"t">>, <<"u">>}
TokenPhysicalNames == {<<>>, <<"p">>, <<"q">>}

(* C25: a pass of the load over COLUMN [name]=[physical] is accepted when  *)
(* a table scope is open, the name is not empty and the name is a column   *)
(* declared under the open table, and makes the load fail in every other   *)
(* case: no scope open (no TABLE line yet, or an END since), empty name,   *)
(* undeclared column.  An accepted COLUMN line leaves the scope open.      *)
C25_ColumnDirective ==
  [][\A name \in TokenNames, physical \in TokenPhysicalNames :
       Reads(Directive(COLUMN, name, physical)) =>
         IF /\ reader.currentTable # ""
            /\ name # <<>>
            /\ Str(name) \in DOMAIN databaseMap[reader.currentTable].columnData
         THEN Accepted /\ reader'.currentTable = reader.currentTable
         ELSE Rejected]_vars

\* TABLE [t]=[p], END, then COLUMN [c]=[q] on a map that holds c under t:
\* the load failed on the third line, no scope being open
C25_Witness ==
  /\ reader.status = "failed"
  /\ reader.textLine = Directive(COLUMN, <<"c">>, <<"q">>)
  /\ reader.linesRead = 3
  /\ reader.currentTable = ""
  /\ "t" \in DOMAIN databaseMap
  /\ databaseMap["t"].tableName.second = "p"
  /\ "c" \in DOMAIN databaseMap["t"].columnData

(* C26: a pass of the load over TABLE [name]=[alias] or TABLE [name] opens *)
(* the scope of that table when no scope is open, the name is not empty    *)
(* and the name is a declared table, and makes the load fail in every      *)
(* other case: a scope is open, empty name, undeclared table.  A scope     *)
(* that is open stays the open one until an END line is read.              *)
C26_TableDirective ==
  [][/\ \A name \in TokenNames, alias \in TokenPhysicalNames :
          (Reads(Directive(TABLE, name, alias)) \/ Reads(Directive1(TABLE, name)))
            => IF /\ reader.currentTable = ""
                  /\ name # <<>>
                  /\ Str(name) \in DOMAIN databaseMap
               THEN Accepted /\ reader'.currentTable = Str(name)
               ELSE Rejected
     /\ (/\ reader.status = "reading"
         /\ reader.currentTable # ""
         /\ reader'.currentTable # reader.currentTable)
          => reader'.currentTable = "" /\ Reads(END)]_vars

\* TABLE [t], then TABLE [t]=[p] with no END between: the load failed on
\* the second line, the scope of t being open, and t got no alias
C26_Witness ==
  /\ reader.status = "failed"
  /\ reader.textLine = Directive(TABLE, <<"t">>, <<"p">>)
  /\ reader.linesRead = 2
  /\ reader.currentTable = "t"
  /\ databaseMap["t"].tableName.second = ""

(* C27: a pass of the load over a bare END line is accepted and leaves no  *)
(* scope open, so that a COLUMN line read next fails and a TABLE line of a *)
(* declared table read next is accepted; a pass over an END line that      *)
(* carries '[', ']' or '=' makes the load fail, the scope staying as it    *)
(* was.  Neither changes the map.                                          *)
C27_EndDirective ==
  [][/\ Reads(END) =>
          /\ Accepted
          /\ reader'.currentTable = ""
          /\ databaseMap' = databaseMap
     /\ \A textLine \in EndLines \ {END} :
          Reads(textLine) =>
            /\ Rejected
            /\ reader'.currentTable = reader.currentTable
            /\ databaseMap' = databaseMap
     /\ (reader.status = "reading" /\ reader.textLine = END
           /\ reader.linesRead > 0) =>
          /\ Reads(Directive(COLUMN, <<"c">>, <<"q">>)) => Rejected
          /\ (Reads(Directive(TABLE, <<"t">>, <<"p">>))
                /\ "t" \in DOMAIN databaseMap) => Accepted]_vars

\* TABLE [t], then END = : the load failed on the second line and the
\* scope of t is still the open one
C27_Witness ==
  /\ reader.status = "failed"
  /\ reader.textLine = END \o <<" ", "=">>
  /\ reader.linesRead = 2
  /\ reader.currentTable = "t"
  /\ reader.failure.error = E_SQLWRITER_SYNTAXERROR

(* C28: in a load, an accepted TABLE [t]=[p] makes p the alias of t and    *)
(* changes nothing else of the map; an accepted COLUMN [c]=[q] makes q the *)
(* physical name of c under the open table and changes nothing else; an    *)
(* accepted directive whose second token is empty or missing, an END       *)
(* line, a skipped line and the end of the file leave the map as it was.   *)
(* So a load that succeeds leaves exactly the mappings its lines state,    *)
(* on the tables and columns that were declared before it.                 *)
C28_LoadAppliesStatedMappings ==
  [][/\ \A name \in TokenNames \ {<<>>}, physical \in TokenPhysicalNames \ {<<>>} :
          /\ (Reads(Directive(TABLE, name, physical)) /\ Accepted) =>
                databaseMap' = [databaseMap EXCEPT
                                  ![Str(name)].tableName.second = Str(physical)]
          /\ (Reads(Directive(COLUMN, name, physical)) /\ Accepted) =>
                databaseMap' = [databaseMap EXCEPT
                                  ![reader.currentTable].columnData[Str(name)]
                                     .columnName.second = Str(physical)]
          /\ (/\ \/ Reads(Directive(TABLE, name, <<>>))
                  \/ Reads(Directive1(TABLE, name))
                  \/ Reads(Directive(COLUMN, name, <<>>))
              /\ Accepted) => databaseMap' = databaseMap
     /\ \A textLine \in EndLines \cup SkippedLines :
          Reads(textLine) => databaseMap' = databaseMap
     /\ (reader.status = "reading" /\ reader'.status = "done") =>
          /\ databaseMap' = databaseMap
          /\ reader'.failure = NoError]_vars

\* TABLE [t]=[p], COLUMN [c]=[q], END loaded with success on a map that
\* declared t, c under t, and u with the alias x: t and c carry the names
\* of the file, u its own
C28_Witness ==
  /\ reader.status = "done"
  /\ reader.linesRead = 3
  /\ reader.textLine = END
  /\ DOMAIN databaseMap = {"t", "u"}
  /\ databaseMap["t"].tableName = [first |-> "t", second |-> "p"]
  /\ DOMAIN databaseMap["t"].columnData = {"c"}
  /\ databaseMap["t"].columnData["c"].columnName = [first |-> "c", second |-> "q"]
  /\ databaseMap["u"].tableName = [first |-> "u", second |-> "x"]

(* C29: a load that fails on a line stops there: the line number it        *)
(* reports is the number of lines taken from the file, the offending one   *)
(* and every skipped one included, the offending line changes neither the  *)
(* map nor the scope, and no further line is read by that load.  A line    *)
(* that starts with ';' and a line of at most one character are passed     *)
(* over: counted, and nothing else.                                        *)
C29_FailureAtFirstOffendingLine ==
  [][/\ (reader.status = "reading" /\ reader'.status = "failed") =>
          /\ reader'.linesRead = reader.linesRead + 1
          /\ reader'.failure.line = reader'.linesRead
          /\ reader'.failure.line >= 1
          /\ reader'.currentTable = reader.currentTable
          /\ databaseMap' = databaseMap
     /\ reader.status = "failed" =>
          /\ reader'.linesRead # reader.linesRead + 1
          /\ lastCall' = "readMapFile" =>
               /\ databaseMap' = databaseMap
               /\ reader'.linesRead = 0
     /\ \A textLine \in SkippedLines :
          Reads(textLine) =>
            /\ Accepted
            /\ reader'.lineNumber = reader.lineNumber + 1
            /\ reader'.currentTable = reader.currentTable
            /\ databaseMap' = databaseMap]_vars

\* two lines that are passed over or a bare END, then INDEX [c]=[q], on a
\* map that declares nothing: the load failed and reports line 3
C29_Witness ==
  /\ reader.status = "failed"
  /\ reader.textLine = Directive(<<"I", "N", "D", "E", "X">>, <<"c">>, <<"q">>)
  /\ reader.failure = CodedError(E_SQLWRITER_INVALIDCOMMAND, 3)
  /\ databaseMap = EmptyMap

\* every accumulating or flag-setting mutator, applied to the writer q with
\* every argument of the model, returns a writer of the kind of q
MutatorsKeepKind(q) ==
  /\ \A e \in CountExpressions : count(q, e).queryType = q.queryType
  /\ distinct(q).queryType = q.queryType
  /\ \A t \in Tables, a \in Aliases : from(q, t, a).queryType = q.queryType
  /\ \A l \in TableLists : from_list(q, l).queryType = q.queryType
  /\ \A c \in MaxColumns :
       /\ max(q, c, "m").queryType = q.queryType
       /\ min(q, c, "").queryType = q.queryType
  /\ \A l \in JoinLists : join(q, l).queryType = q.queryType
  /\ \A n \in LimitNumbers : limit(q, n).queryType = q.queryType
  /\ \A n \in OffsetNumbers : offset(q, n).queryType = q.queryType
  /\ \A l \in OrderByLists : orderBy(q, l).queryType = q.queryType
  /\ resetWhere(q).queryType = q.queryType
  /\ \A p \in SetPairs : set(q, p.first, p.second).queryType = q.queryType
  /\ \A l \in SetLists : set_list(q, l).queryType = q.queryType
  /\ \A l \in ValueLists : values(q, l).queryType = q.queryType
  /\ \A l \in WhereLists : where(q, l).queryType = q.queryType

\* a step changes the kind only by an entry method or resetQuery()
KindFrame ==
  lastCall' \notin EntryCalls \cup {"resetQuery"} => w'.queryType = w.queryType

(* C30, as claimed: the kind changes only through the entry methods and    *)
(* resetQuery(); every other mutator, every schema map operation and       *)
(* string() leave the kind as it was, whatever it was, None included, and  *)
(* none of them is refused because of the kind: string() never fails for   *)
(* the kind the writer is in.                                              *)
C30_KindFrameAllAccepted ==
  [][/\ KindFrame
     /\ MutatorsKeepKind(w)
     /\ lastCall' = "string" => result' # Fail(CODE_ERROR)]_vars

(* C30, amended: the kind changes only through the entry methods and       *)
(* resetQuery(); every other mutator, every schema map operation and       *)
(* string() leave the kind as it was, whatever it was, None included; the  *)
(* mutators and the schema map operations are taken in every kind, and     *)
(* string() is refused for the kind exactly when the kind is None, where   *)
(* it fails with a code error.                                             *)
C30_KindFrame ==
  [][/\ KindFrame
     /\ MutatorsKeepKind(w)
     /\ lastCall' = "string" =>
          (result' = Fail(CODE_ERROR) <=> w.queryType = qt_none)]_vars

\* where() and then string() on a writer with no query started: the
\* predicates are held, the kind is still None and string() failed
C30_Witness ==
  /\ lastCall = "string"
  /\ w.queryType = qt_none
  /\ w.whereFields # <<>>
  /\ result = Fail(CODE_ERROR)

(* C31: while no query is started string() returns no statement: it fails  *)
(* with the code error, whatever clauses the writer holds.  That is so on  *)
(* the constructed writer, and resetQuery() called in any state leaves a   *)
(* writer on which string() fails so, until an entry method is called.     *)
C31_NoStatementWithoutKind ==
  [][/\ w.queryType = qt_none =>
          /\ string(w, dialect) = Fail(CODE_ERROR)
          /\ lastCall' = "string" => (~result'.ok /\ result'.err = CODE_ERROR)
          /\ lastCall' \notin EntryCalls => w'.queryType = qt_none
     /\ lastCall' = "resetQuery" =>
          /\ w'.queryType = qt_none
          /\ string(w', dialect') = Fail(CODE_ERROR)]_vars

\* deleteFrom(t), resetQuery(), string(): no query is started, the writer
\* still holds the table name, and string() failed with the code error
C31_Witness ==
  /\ lastCall = "string"
  /\ w.queryType = qt_none
  /\ w.deleteTable = "t"
  /\ result = Fail(CODE_ERROR)

\* what a rendered Select of the writer q is, the WHERE keyword there only
\* with a predicate to follow it
SelectText(q, d) ==
  createSelectClause(q, d) \o createFromClause(q)
    \o (IF q.joinFields # <<>> THEN createJoinClause(q).str ELSE "")
    \o (IF q.whereFields # <<>>
        THEN " WHERE " \o WhereText(q.whereFields) ELSE "")
    \o (IF q.orderByFields # <<>> THEN createOrderByClause(q) ELSE "")
    \o createLimitClause(q, d).str

(* C32: a rendered Select carries WHERE and the predicates when the writer *)
(* holds a predicate and no WHERE at all when it holds none; a rendered    *)
(* Delete and a rendered Update always carry WHERE: with no predicate      *)
(* held, after resetWhere() included, string() returns a statement that    *)
(* ends in " WHERE " with nothing behind it.                               *)
C32_WhereKeywordPerKind ==
  [][/\ (lastCall' = "string" /\ w'.queryType = qt_delete) =>
          result' = Ok("DELETE FROM " \o w'.deleteTable \o " WHERE "
                         \o WhereText(w'.whereFields))
     /\ (lastCall' = "string" /\ w'.queryType = qt_update
           /\ w'.setFields # <<>>) =>
          result' = Ok("UPDATE " \o w'.updateTable \o " SET "
                         \o Assignments(w'.setFields) \o " WHERE "
                         \o WhereText(w'.whereFields))
     /\ (lastCall' = "string" /\ w'.queryType = qt_select /\ result'.ok) =>
          result'.str = SelectText(w', dialect')
     /\ \A q \in {resetWhere(w')} \cup {where(w', l) : l \in WhereLists} :
          /\ (q.queryType = qt_select /\ string(q, dialect').ok) =>
                string(q, dialect').str = SelectText(q, dialect')
          /\ q.queryType = qt_delete =>
                string(resetWhere(q), dialect') =
                  Ok("DELETE FROM " \o q.deleteTable \o " WHERE ")]_vars

\* update(t), set(a, 1) and string() with no predicate held
C32_Witness ==
  /\ lastCall = "string"
  /\ w.queryType = qt_update
  /\ w.whereFields = <<>>
  /\ result = Ok("UPDATE t SET a = 1 WHERE ")

(* C33: the load does not ask the scopes to balance.  A bare END line read *)
(* while no scope is open is accepted and no scope is open after it; the   *)
(* end of the file while a scope is open ends the load with success, as it *)
(* does with no scope open; and after its END a table is opened again by   *)
(* a TABLE line, whose alias replaces the alias the table had.             *)
C33_ScopeBalanceNotEnforced ==
  [][/\ (Reads(END) /\ reader.currentTable = "") =>
          /\ Accepted
          /\ reader'.currentTable = ""
          /\ databaseMap' = databaseMap
     /\ (/\ reader.status = "reading"
         /\ lastCall' = "readMapFile"
         /\ reader'.linesRead = reader.linesRead) =>
          /\ reader'.status = "done"
          /\ reader'.failure = NoError
          /\ reader'.currentTable = reader.currentTable
          /\ databaseMap' = databaseMap
     /\ \A alias \in TokenPhysicalNames \ {<<>>} :
          (/\ Reads(Directive(TABLE, <<"t">>, alias))
           /\ reader.currentTable = ""
           /\ "t" \in DOMAIN databaseMap) =>
            /\ Accepted
            /\ reader'.currentTable = "t"
            /\ databaseMap'["t"].tableName.second = Str(alias)]_vars

\* a file of three lines that ends on TABLE [t]=[q], such as
\* TABLE [t]=[p], END, TABLE [t]=[q]: the load succeeded with the scope of
\* t open and q as the alias of t
C33_Witness ==
  /\ reader.status = "done"
  /\ reader.failure = NoError
  /\ reader.linesRead = 3
  /\ reader.textLine = Directive(TABLE, <<"t">>, <<"q">>)
  /\ reader.currentTable = "t"
  /\ databaseMap["t"].tableName.second = "q"

====
